---- MODULE Spec2Model ----
(***************************************************************************)
(* A model of src/src/App.tsx: the App component of the movie browser.     *)
(*                                                                         *)
(* The component holds four pieces of React state (movies, isLoading,      *)
(* error, filters), starts one asynchronous fetchMovies() from a mount     *)
(* effect, and on every render derives filteredMovies from movies and      *)
(* filters and picks one of three views.                                   *)
(*                                                                         *)
(* JavaScript runs each piece of code between two awaits to completion, so *)
(* one action is one such piece: the effect up to `await fetch`, the       *)
(* continuation after the fetch promise settles, the continuation after    *)
(* the json() promise settles, and the event handler handleFilterChange.   *)
(* The state setters called in one piece are committed together and the    *)
(* component is rendered once after it (React batches them), so the render *)
(* (the recomputation of filteredMovies) is the tail of every action.      *)
(*                                                                         *)
(* Strings whose characters matter (Title, Year, Runtime, searchTerm) are  *)
(* sequences of one-character strings; messages are opaque strings.        *)
(***************************************************************************)
EXTENDS Integers, Sequences, FiniteSets, TLC

VARIABLES
  movies,     \* useState<Movie[]>([])                      (line 17)
  isLoading,  \* useState(true)                             (line 18)
  error,      \* useState<string | null>(null)              (line 19)
  filters,    \* useState<FilterOptions>({...})             (line 20)
  pc,         \* where the one fetchMovies() invocation stands
  mounted,    \* whether the component is still mounted
  requests,   \* how many times fetch(...) has been called
  inFlight,   \* fetch promises not yet settled
  response,   \* what the network answered (environment, for the record)
  view,       \* filteredMovies as computed by the last render
  unhandled   \* whether an exception escaped fetchMovies()

vars == <<movies, isLoading, error, filters, pc, mounted, requests,
          inFlight, response, view, unhandled>>

----------------------------------------------------------------------------
(* Bounds of the model *)

\* the longest response body (number of records)
MaxMovies == 3

\* the longest search term typed (number of characters)
MaxTermLen == 2

----------------------------------------------------------------------------
(* Data *)

\* the value null of `string | null`
NULL == "<null>"

\* the characters a user types into the search box in this model
TermChars == {"a", "B"}

\* a record as the endpoint delivers it (interface Movie)
Movie(t, y, r) == [Title |-> t, Year |-> y, Runtime |-> r]

\* the records the endpoint may deliver; the last one is malformed: its Year
\* and Runtime are not numbers
Catalog ==
  { Movie(<<"A", "b">>, <<"1", "9", "9", "9">>, <<"9", "0">>),
    Movie(<<"b">>,      <<"2", "0", "0", "1">>, <<"1", "4", "2">>),
    Movie(<<"a", "B">>, <<"3", "0", "0">>,      <<"9", "0">>),
    Movie(<<"B", "a">>, <<"x">>,                <<>>) }

RECURSIVE SeqsUpTo(_, _)
SeqsUpTo(S, n) ==
  IF n = 0 THEN {<<>>}
  ELSE LET shorter == SeqsUpTo(S, n - 1)
       IN  shorter \cup {Append(s, x) : s \in shorter, x \in S}

\* the bodies response.json() may resolve to
Bodies == SeqsUpTo(Catalog, MaxMovies)

\* what the text input may hold
SearchTerms == SeqsUpTo(TermChars, MaxTermLen)

SortKeys == {"Title", "Year", "Runtime"}

\* a value a promise may reject with: an Error instance with its message, or
\* a value that is no Error instance
Thrown(isErr, msg) == [isError |-> isErr, message |-> msg]

NoExc == [isError |-> FALSE, message |-> "<none>"]

Failures ==
  { Thrown(TRUE, "Failed to fetch"),        \* TypeError of a network failure
    Thrown(TRUE, "Unexpected token"),       \* SyntaxError of a parse failure
    Thrown(TRUE, ""),                       \* an Error without a message
    Thrown(FALSE, "") }                     \* a rejection with a non-Error value

NoResponse == [kind |-> "none", err |-> NoExc, body |-> <<>>]

----------------------------------------------------------------------------
(* Library functions the component calls, by what they do on the model's   *)
(* characters (letters a, A, b, B, decimal digits, and x)                  *)

Digits == {"0", "1", "2", "3", "4", "5", "6", "7", "8", "9"}

DigitVal(c) ==
  CASE c = "0" -> 0 [] c = "1" -> 1 [] c = "2" -> 2 [] c = "3" -> 3
    [] c = "4" -> 4 [] c = "5" -> 5 [] c = "6" -> 6 [] c = "7" -> 7
    [] c = "8" -> 8 [] c = "9" -> 9

Front(s) == SubSeq(s, 1, Len(s) - 1)

Last(s) == s[Len(s)]

\* a JavaScript number: an integer, or NaN
Num(n) == [nan |-> FALSE, val |-> n]

NaN == [nan |-> TRUE, val |-> 0]

\* the value of the longest prefix of decimal digits of s, after acc
RECURSIVE ParseDigits(_, _)
ParseDigits(s, acc) ==
  IF s = <<>> \/ Head(s) \notin Digits THEN acc
  ELSE ParseDigits(Tail(s), 10 * acc + DigitVal(Head(s)))

\* parseInt(string): the leading decimal digits as an integer, NaN when the
\* string does not start with a digit (the model's strings hold no blank,
\* sign or 0x prefix)
parseInt(s) ==
  IF s = <<>> \/ Head(s) \notin Digits THEN NaN ELSE Num(ParseDigits(s, 0))

\* the subtraction of two numbers: NaN when either is NaN
Minus(x, y) == IF x.nan \/ y.nan THEN NaN ELSE Num(x.val - y.val)

\* String.prototype.toLowerCase
LowerChar(c) == CASE c = "A" -> "a" [] c = "B" -> "b" [] OTHER -> c

toLowerCase(s) == [i \in 1..Len(s) |-> LowerChar(s[i])]

\* String.prototype.includes: needle occurs in hay at some position
includes(hay, needle) ==
  \E i \in 1..(Len(hay) - Len(needle) + 1) :
    \A k \in 1..Len(needle) : hay[i + k - 1] = needle[k]

\* the collation of String.prototype.localeCompare (root locale): letters
\* first compare alphabetically whatever their case; strings equal up to case
\* are then ordered by the first character whose case differs, lower case
\* first
PrimaryWeight(c) == CASE LowerChar(c) = "a" -> 1 [] LowerChar(c) = "b" -> 2 [] OTHER -> 0

RECURSIVE PrimaryCompare(_, _)
PrimaryCompare(x, y) ==
  IF x = <<>> THEN (IF y = <<>> THEN 0 ELSE -1)
  ELSE IF y = <<>> THEN 1
  ELSE IF PrimaryWeight(Head(x)) < PrimaryWeight(Head(y)) THEN -1
  ELSE IF PrimaryWeight(Head(x)) > PrimaryWeight(Head(y)) THEN 1
  ELSE PrimaryCompare(Tail(x), Tail(y))

RECURSIVE CaseCompare(_, _)
CaseCompare(x, y) ==
  IF x = <<>> \/ y = <<>> THEN 0
  ELSE IF Head(x) = Head(y) THEN CaseCompare(Tail(x), Tail(y))
  ELSE IF Head(x) = LowerChar(Head(x)) THEN -1 ELSE 1

localeCompare(x, y) ==
  IF PrimaryCompare(x, y) # 0 THEN PrimaryCompare(x, y) ELSE CaseCompare(x, y)

----------------------------------------------------------------------------
(* The derivation pipeline (lines 58-72)                                   *)

\* faulty variant: the titles and the search term compared as they are
filterPredicateCaseSensitive(movie, f) == includes(movie.Title, f.searchTerm)

\* the predicate of .filter (lines 59-61)
filterPredicate(movie, f) ==
  includes(toLowerCase(movie.Title), toLowerCase(f.searchTerm))

\* faulty variant: the Year operands exchanged: oldest first
compareYearAscending(a, b, f) ==
  IF f.sortBy = "Year" THEN Minus(parseInt(a.Year), parseInt(b.Year))
  ELSE IF f.sortBy = "Runtime" THEN Minus(parseInt(b.Runtime), parseInt(a.Runtime))
  ELSE Num(localeCompare(a.Title, b.Title))

\* the comparator of .sort (lines 62-72)
compare(a, b, f) ==
  IF f.sortBy = "Year" THEN Minus(parseInt(b.Year), parseInt(a.Year))
  ELSE IF f.sortBy = "Runtime" THEN Minus(parseInt(b.Runtime), parseInt(a.Runtime))
  ELSE Num(localeCompare(a.Title, b.Title))

\* Array.prototype.sort reads a comparator result of NaN as +0
SortCompare(a, b, f) == IF compare(a, b, f).nan THEN 0 ELSE compare(a, b, f).val

\* Array.prototype.sort is stable: an element goes behind the elements that
\* do not compare greater than it
RECURSIVE insertSorted(_, _, _)
insertSorted(s, x, f) ==
  IF s = <<>> THEN <<x>>
  ELSE IF SortCompare(Last(s), x, f) > 0
       THEN Append(insertSorted(Front(s), x, f), Last(s))
       ELSE Append(s, x)

RECURSIVE stableSort(_, _)
stableSort(s, f) ==
  IF s = <<>> THEN <<>> ELSE insertSorted(stableSort(Front(s), f), Last(s), f)

\* every order of the elements of s
Orders(s) ==
  IF s = <<>> THEN {<<>>}
  ELSE {[i \in 1..Len(s) |-> s[p[i]]] : p \in Permutations(1..Len(s))}

\* the arrays .sort may leave: the stably sorted one; a comparator that
\* yields NaN for some pair is not a consistent comparator, for which the
\* language leaves the order to the implementation
sortOutcomes(s, f) ==
  IF \E i, j \in 1..Len(s) : i # j /\ compare(s[i], s[j], f).nan
  THEN Orders(s)
  ELSE {stableSort(s, f)}

\* faulty variant: `movies.sort(...).filter(...)`: .sort sorts movies itself
filteredMoviesSortFirst(ms, f) ==
  {[raw |-> v, shown |-> SelectSeq(v, LAMBDA m : filterPredicate(m, f))] :
     v \in sortOutcomes(ms, f)}

\* one evaluation of `movies.filter(...).sort(...)`: .filter builds a new
\* array and .sort sorts that array in place, so movies (raw) is left as it
\* is; the result is the array the render shows (shown)
filteredMovies(ms, f) ==
  {[raw |-> ms, shown |-> v] :
     v \in sortOutcomes(SelectSeq(ms, LAMBDA m : filterPredicate(m, f)), f)}

\* the branch the render takes (lines 74-88, 90): `if (error)` tests the
\* truthiness of error, and both null and the empty string are falsy
Displayed(loading, err) ==
  IF loading THEN "Loading"
  ELSE IF err # NULL /\ err # "" THEN "Error"
  ELSE "Ready"

\* the no-results paragraph of the Ready view (lines 164-168)
NoResultsShown == Displayed(isLoading, error) = "Ready" /\ Len(view) = 0

\* the grid of the Ready view (lines 126-162)
GridShown == Displayed(isLoading, error) = "Ready"

----------------------------------------------------------------------------
(* The component: state setters, the mount effect, fetchMovies, the handler *)

\* faulty variant: a setter that writes whether or not the component is mounted
setStateUnmounted(current, value) == value

\* a setter returned by useState (setMovies, setIsLoading, setError,
\* setFilters): it replaces the state of a mounted component, and React
\* drops an update made to a component that is no longer mounted
setState(current, value) == IF mounted THEN value ELSE current

\* faulty variant: the effect depends on filters
useEffectDepsFilters == {"filters"}

\* the dependency list of useEffect (line 43): none, the effect runs on
\* mount only
useEffectDeps == {}

\* the argument of setError in the catch clause (line 36)
errorMessage(err) == IF err.isError THEN err.message ELSE "An error occurred"

\* `catch (err)` (line 35) takes every thrown value
catches(thrown) == thrown # NoExc

\* faulty variant: setIsLoading(false) at the end of the try block instead of in
\* a finally clause
finallyOnlyOnSuccess(thrown) ==
  IF thrown = NoExc THEN setState(isLoading, FALSE) ELSE isLoading

\* faulty variant: no finally clause at all
finallyDropped(thrown) == isLoading

\* the value of isLoading the finally clause leaves (lines 37-39): the
\* clause runs whatever was thrown
finallyLoading(thrown) == setState(isLoading, FALSE)

\* faulty variant: records whose Year is not a number are dropped before setMovies
moviesFromBodyValidated(data) ==
  SelectSeq(data, LAMBDA m : ~parseInt(m.Year).nan)

\* the argument of setMovies (lines 33-34): the parsed body itself
moviesFromBody(data) == data

\* the render that follows a commit: filteredMovies is recomputed from the
\* committed movies and filters; an unmounted component renders no more
Render(newMovies, newFilters) ==
  IF mounted
  THEN \E r \in filteredMovies(newMovies, newFilters) :
         movies' = r.raw /\ view' = r.shown
  ELSE movies' = newMovies /\ view' = view

\* the rest of fetchMovies once its awaits are over (lines 34-39): setMovies
\* when nothing was thrown, else the catch clause, then the finally clause
Settle(thrown, data) ==
  /\ pc' = "done"
  /\ error' = IF catches(thrown) THEN setState(error, errorMessage(thrown)) ELSE error
  /\ isLoading' = finallyLoading(thrown)
  /\ unhandled' = (unhandled \/ (thrown # NoExc /\ ~catches(thrown)))
  /\ Render(IF thrown = NoExc THEN setState(movies, data) ELSE movies, filters)
  /\ UNCHANGED <<filters, mounted, requests>>

Init ==
  /\ movies = <<>>
  /\ isLoading = TRUE
  /\ error = NULL
  /\ filters = [searchTerm |-> <<>>, sortBy |-> "Title"]
  /\ pc = "start"
  /\ mounted = TRUE
  /\ requests = 0
  /\ inFlight = 0
  /\ response = NoResponse
  /\ view = <<>>
  /\ unhandled = FALSE

\* the effect callback (lines 25-43): fetchMovies() up to `await fetch(...)`
Effect ==
  /\ pc = "start"
  /\ mounted
  /\ isLoading' = setState(isLoading, TRUE)
  /\ requests' = requests + 1
  /\ inFlight' = inFlight + 1
  /\ pc' = "awaitFetch"
  /\ Render(movies, filters)
  /\ UNCHANGED <<error, filters, mounted, response, unhandled>>

\* the fetch promise resolves with an ok response: response.json() is
\* called and awaited (lines 29-33)
FetchOk ==
  /\ pc = "awaitFetch"
  /\ inFlight' = inFlight - 1
  /\ response' = [kind |-> "ok", err |-> NoExc, body |-> <<>>]
  /\ pc' = "awaitJson"
  /\ UNCHANGED <<movies, isLoading, error, filters, mounted, requests, view, unhandled>>

\* the fetch promise resolves with a response that is not ok: the throw of
\* line 31, caught at line 35
FetchNotOk ==
  /\ pc = "awaitFetch"
  /\ inFlight' = inFlight - 1
  /\ response' = [kind |-> "notok", err |-> NoExc, body |-> <<>>]
  /\ Settle(Thrown(TRUE, "Failed to fetch movies"), <<>>)

\* the fetch promise rejects with err (line 29)
FetchRejects(err) ==
  /\ pc = "awaitFetch"
  /\ inFlight' = inFlight - 1
  /\ response' = [kind |-> "rejected", err |-> err, body |-> <<>>]
  /\ Settle(err, <<>>)

\* response.json() resolves with data (lines 33-34)
JsonResolves(data) ==
  /\ pc = "awaitJson"
  /\ response' = [kind |-> "parsed", err |-> NoExc, body |-> data]
  /\ Settle(NoExc, moviesFromBody(data))
  /\ UNCHANGED inFlight

\* response.json() rejects with err (line 33)
JsonRejects(err) ==
  /\ pc = "awaitJson"
  /\ response' = [kind |-> "parsefail", err |-> err, body |-> <<>>]
  /\ Settle(err, <<>>)
  /\ UNCHANGED inFlight

\* handleFilterChange(key, value) (lines 45-47), called by the text input and
\* the select, which only the Ready view renders (lines 102-121); the
\* component renders again, and the effect runs again only if one of its
\* dependencies changed
HandleFilterChange(key, value) ==
  /\ mounted
  /\ Displayed(isLoading, error) = "Ready"
  /\ filters' = setState(filters, [filters EXCEPT ![key] = value])
  /\ filters' # filters
  /\ IF "filters" \in useEffectDeps
     THEN /\ isLoading' = setState(isLoading, TRUE)
          /\ requests' = requests + 1
          /\ inFlight' = inFlight + 1
          /\ pc' = "awaitFetch"
     ELSE UNCHANGED <<isLoading, requests, inFlight, pc>>
  /\ Render(movies, filters')
  /\ UNCHANGED <<error, mounted, response, unhandled>>

\* the component is unmounted (the session is torn down); fetchMovies, if
\* still awaiting, is not cancelled: the effect returns no cleanup function
Unmount ==
  /\ mounted
  /\ pc # "start"
  /\ mounted' = FALSE
  /\ UNCHANGED <<movies, isLoading, error, filters, pc, requests, inFlight,
                 response, view, unhandled>>

Next ==
  \/ Effect
  \/ FetchOk
  \/ FetchNotOk
  \/ \E err \in Failures : FetchRejects(err)
  \/ \E data \in Bodies : JsonResolves(data)
  \/ \E err \in Failures : JsonRejects(err)
  \/ \E term \in SearchTerms : HandleFilterChange("searchTerm", term)
  \/ \E key \in SortKeys : HandleFilterChange("sortBy", key)
  \/ Unmount

Spec == Init /\ [][Next]_vars

----------------------------------------------------------------------------
(* Properties                                                              *)

Failed == response.kind \in {"notok", "rejected", "parsefail"}

\* the attempt has run to its end in a component that is still mounted
Completed == pc = "done" /\ mounted

\* C1: in every reachable state the lifecycle is exactly one of Loading,
\* Error(message), Ready(movies): isLoading is never true while an error
\* message is set, an error message is never set while the movie list is
\* populated, and the list is never populated while still loading.
C1_LifecycleExclusive ==
  /\ Cardinality({k \in {"Loading", "Error", "Ready"} :
        \/ k = "Loading" /\ isLoading
        \/ k = "Error" /\ error # NULL
        \/ k = "Ready" /\ ~isLoading /\ error = NULL}) = 1
  /\ ~(isLoading /\ error # NULL)
  /\ ~(error # NULL /\ movies # <<>>)
  /\ ~(isLoading /\ movies # <<>>)

\* a failed attempt has set the error message and cleared the loading flag
C1_Witness ==
  Completed /\ response.kind = "parsefail" /\ error = "Unexpected token" /\ ~isLoading

\* the message the claim C2 expects for the recorded failure
ExpectedMessage ==
  IF response.kind = "notok" THEN "Failed to fetch movies"
  ELSE IF response.err.message # "" THEN response.err.message
  ELSE "An error occurred"

\* C2: when the fetch attempt fails, the lifecycle state becomes Error and
\* its message is "Failed to fetch movies" for a response that is not ok, the
\* failure's own message for a network or parse failure that carries one, and
\* "An error occurred" otherwise.
C2_ErrorMessageByKind ==
  (Completed /\ Failed) =>
     /\ Displayed(isLoading, error) = "Error"
     /\ error = ExpectedMessage

\* C3: every fetch failure, whatever message it carries, is terminal: once
\* the attempt has completed with a failure the Error view is displayed, and
\* neither the movie grid nor the no-results message is displayed afterwards.
C3_FailureTerminal ==
  (Completed /\ Failed) =>
     /\ Displayed(isLoading, error) = "Error"
     /\ ~GridShown
     /\ ~NoResultsShown

\* C4: after an ok response whose body parses, the raw movie list is the
\* parsed body exactly as received (same records, same order, nothing
\* dropped), the error message is unset and the state is Ready, not Loading.
C4_ReadyWithBodyAsReceived ==
  (Completed /\ response.kind = "parsed") =>
     /\ movies = response.body
     /\ error = NULL
     /\ ~isLoading
     /\ Displayed(isLoading, error) = "Ready"

\* a body of several records, one of them malformed, has been received
C4_Witness ==
  /\ Completed
  /\ response.kind = "parsed"
  /\ Len(response.body) >= 2
  /\ \E i \in 1..Len(response.body) : parseInt(response.body[i].Year).nan
  /\ movies = response.body

\* C5: loading is never stuck: on every path of the attempt the loading flag
\* is false once the attempt has completed, and once false it never becomes
\* true again.
C5_LoadingNeverStuck ==
  /\ [](Completed => ~isLoading)
  /\ [][~isLoading => ~isLoading']_vars

\* the attempt completed through a rejected request
C5_Witness == Completed /\ response.kind = "rejected" /\ ~isLoading

\* C6: exactly one fetch is issued per session, at its start: no later event
\* issues a second one, and at most one request is in flight at any time.
C6_SingleFetch ==
  /\ requests <= 1
  /\ inFlight <= 1
  /\ (pc # "start" => requests = 1)
  /\ (inFlight = 1 <=> pc = "awaitFetch")

\* the search term and the sort key were both changed after the attempt
C6_Witness ==
  /\ Completed
  /\ requests = 1
  /\ filters.searchTerm # <<>>
  /\ filters.sortBy # "Title"

SameLetter(c, d) == c = d \/ {c, d} = {"a", "A"} \/ {c, d} = {"b", "B"}

\* term occurs in title at some offset, letters compared whatever their case
ContainsIgnoringCase(title, term) ==
  \E off \in 0..(Len(title) - Len(term)) :
    \A k \in 1..Len(term) : SameLetter(title[off + k], term[k])

Occurrences(s, x) == Cardinality({i \in 1..Len(s) : s[i] = x})

\* C8: the view list holds exactly the movies of the raw list whose Title
\* contains the search term when both are compared case-insensitively, each
\* as often as the raw list holds it and no other record; with the empty
\* search term it holds every movie of the raw list.
C8_ViewIsExactMatches ==
  /\ \A i \in 1..Len(view) : \E j \in 1..Len(movies) : view[i] = movies[j]
  /\ \A j \in 1..Len(movies) :
       Occurrences(view, movies[j]) =
         IF ContainsIgnoringCase(movies[j].Title, filters.searchTerm)
         THEN Occurrences(movies, movies[j]) ELSE 0
  /\ (filters.searchTerm = <<>> => Len(view) = Len(movies))

\* a two-letter term matched titles written in another case and left a
\* movie out
C8_Witness ==
  /\ mounted
  /\ filters.searchTerm = <<"a", "B">>
  /\ Len(view) >= 2
  /\ Len(view) < Len(movies)
  /\ \E i \in 1..Len(view) : view[i].Title = <<"A", "b">>

\* Year and Runtime are non-empty strings of decimal digits
IsDigits(s) == s # <<>> /\ \A k \in 1..Len(s) : s[k] \in Digits

AllNumeric(ms) ==
  \A i \in 1..Len(ms) : IsDigits(ms[i].Year) /\ IsDigits(ms[i].Runtime)

\* the integer a string of decimal digits denotes
RECURSIVE DecimalValue(_)
DecimalValue(s) ==
  IF s = <<>> THEN 0 ELSE 10 * DecimalValue(Front(s)) + DigitVal(Last(s))

\* a comes no later than b under the sort key
InOrder(a, b, key) ==
  CASE key = "Year" -> DecimalValue(a.Year) >= DecimalValue(b.Year)
    [] key = "Runtime" -> DecimalValue(a.Runtime) >= DecimalValue(b.Runtime)
    [] OTHER -> localeCompare(a.Title, b.Title) <= 0

\* C9: for a raw list whose Year and Runtime strings are decimal digits, the
\* view list is ordered by the selected key: ascending by Title, descending
\* by the integer value of Year (the largest Year first), descending by the
\* integer value of Runtime; sorting the view again by the same key leaves
\* its order unchanged.
C9_ViewSortedByKey ==
  AllNumeric(movies) =>
     /\ \A i, j \in 1..Len(view) : i < j => InOrder(view[i], view[j], filters.sortBy)
     /\ (filters.sortBy = "Year" =>
           \A i \in 1..Len(view) :
              DecimalValue(view[1].Year) >= DecimalValue(view[i].Year))
     /\ sortOutcomes(view, filters) = {view}

\* three movies of three different years were put in descending order, which
\* is neither the order received nor the order of the Year strings
C9_Witness ==
  /\ mounted
  /\ AllNumeric(movies)
  /\ filters.sortBy = "Year"
  /\ Len(view) = 3
  /\ view # movies
  /\ view[1].Year = <<"2", "0", "0", "1">>
  /\ view[3].Year = <<"3", "0", "0">>

\* C10: the raw list is never changed by the derivation pipeline or by user
\* input: once loaded it keeps its records in the order received, and the
\* view list is at every moment a result of the pipeline on the raw list and
\* the current filter configuration alone.
C10_RawListUntouched ==
  /\ [](view \in {r.shown : r \in filteredMovies(movies, filters)})
  /\ [][pc = "done" => movies' = movies]_vars

\* the view shows every movie of the raw list in another order than the raw
\* list, which is still the body received
C10_Witness ==
  /\ Completed
  /\ response.kind = "parsed"
  /\ movies = response.body
  /\ filters.sortBy = "Runtime"
  /\ filters.searchTerm = <<>>
  /\ Len(view) = Len(movies)
  /\ view # movies

====
